---- MODULE Spec2Model ----
(***************************************************************************)
(* Model of the tetris-golang game engine (main.go, constants.go and the   *)
(* shape-geometry helpers): the board, the active piece, the four commands *)
(* moveLeft / moveRight / moveDown / rotate, the commit pass tick(), the   *)
(* row clearing of removeFullLines, and the goroutines of runGameLoop that *)
(* issue the commands under Game.lock.                                     *)
(*                                                                         *)
(* The board of the program is 20 rows of 10 cells.  The model keeps the   *)
(* code of every operation as it is and explores a smaller board           *)
(* (gameGridWidth x gameGridHeight below), still wider than the widest     *)
(* piece and taller than the tallest one.                                  *)
(***************************************************************************)
EXTENDS Integers, Sequences, FiniteSets, TLC

\* board size explored by the model (constants.go:35-36 set 10 and 20)
gameGridWidth == 5
gameGridHeight == 6

\* number of pieces a behaviour creates at most (newGame's piece included)
MaxPieces == 4

\* the goroutines start a moveDown only while fewer pieces than this were created
ConcPieces == 3

\* ShapeState, constants.go:41-45
EmptyState == 0
FallingState == 1
FixedState == 2

\* upper bounds of the two rand.Intn calls of newPiece, main.go:66
RandShapeBound == 1
RandPosBound == 4

\* the shapes table of constants.go:7-22, as decimal values of the 16-bit masks
shapes ==
  << << 3840, 8738, 3840, 8738 >>,        \* I  0x0F00 0x2222 0x0F00 0x2222
     << 26112, 26112, 26112, 26112 >>,    \* O  0x6600
     << 19520, 19968, 51328, 58368 >>,    \* T  0x4C40 0x4E00 0xC880 0xE400
     << 1728, 35904, 27648, 17952 >>,     \* S  0x06C0 0x8C40 0x6C00 0x4620
     << 3168, 19584, 50688, 9792 >>,      \* Z  0x0C60 0x4C80 0xC600 0x2640
     << 17600, 36352, 59520, 50240 >>,    \* J  0x44C0 0x8E00 0xE880 0xC440
     << 17504, 3712, 50240, 11776 >> >>   \* L  0x4460 0x0E80 0xC440 0x2E00

\* shapes[shape][pos] with Go's 0-based indices
ShapeAt(shape, pos) == shapes[shape + 1][pos + 1]

\* shape & (1 << k) != 0
BitSet(shape, k) == (shape \div (2 ^ k)) % 2 = 1

SetMin(S) == CHOOSE m \in S : \A n \in S : m <= n
SetMax(S) == CHOOSE m \in S : \A n \in S : m >= n

isWithinBoard(x, y) ==
  x >= 0 /\ x < gameGridWidth /\ y >= 0 /\ y < gameGridHeight

\* getTopOffset that returns the loop index i instead of 3 - i
getTopOffsetFromBottom(shape) ==
  LET nz == { i \in 0..3 : (shape \div (16 ^ i)) % 16 # 0 }
  IN  IF nz = {} THEN 0 ELSE SetMax(nz)

\* first i of the loop 3, 2, 1, 0 whose nibble (shape >> (i*4)) & 0xF is not 0
getTopOffset(shape) ==
  LET nz == { i \in 0..3 : (shape \div (16 ^ i)) % 16 # 0 }
  IN  IF nz = {} THEN 0 ELSE 3 - SetMax(nz)

\* the loop tests bit i and takes x = i % 4; minX starts at 4, maxX at 0
getShapeDimensions(shape) ==
  LET xs == { i % 4 : i \in { j \in 0..15 : BitSet(shape, j) } }
      minX == SetMin(xs \cup {4})
      maxX == SetMax(xs \cup {0})
  IN  maxX - minX + 1

\* the loop tests bit 15-i and takes col = i % 4; columnIndex starts at 4
findFirstNonEmptyColumn(shape) ==
  SetMin({ i % 4 : i \in { j \in 0..15 : BitSet(shape, 15 - j) } } \cup {4})

\* every mask of the table
Masks == { shapes[s][r] : s \in 1..7, r \in 1..4 }

\* for each mask of the table, the loop indices i in 0..15 with shape & (1 << (15-i)) != 0
SolidIndices == [ m \in Masks |-> { j \in 0..15 : BitSet(m, 15 - j) } ]

\* the cells (xx, yy) that fixPiece and hasCollision visit for a mask at (x, y)
MaskCells(shape, x, y) ==
  { << x + (i % 4), y + (i \div 4) >> : i \in SolidIndices[shape] }

\* fixPiece: write val to the cells of the mask that lie on the board
fixPiece(b, shape, x, y, val) ==
  LET cells == MaskCells(shape, x, y)
      rows == { c[2] : c \in cells }
  IN  [ yy \in 0..(gameGridHeight - 1) |->
        IF yy \in rows
        THEN [ xx \in 0..(gameGridWidth - 1) |->
                 IF << xx, yy >> \in cells THEN val ELSE b[yy][xx] ]
        ELSE b[yy] ]

\* hasCollision without the isWithinBoard test: only Fixed cells on the board block
hasCollisionFixedOnly(b, p, x, y, pos) ==
  \E c \in MaskCells(ShapeAt(p.shape, pos), x, y) :
     /\ isWithinBoard(c[1], c[2])
     /\ b[c[2]][c[1]] = FixedState

\* hasCollision: some cell of variant pos of the piece's kind is off the board or Fixed
hasCollision(b, p, x, y, pos) ==
  \E c \in MaskCells(ShapeAt(p.shape, pos), x, y) :
     \/ ~ isWithinBoard(c[1], c[2])
     \/ b[c[2]][c[1]] = FixedState

\* a "full" test that counts every non-Empty cell, Falling ones included
RowFullNonEmpty(b, y) == \A x \in 0..(gameGridWidth - 1) : b[y][x] # EmptyState

\* the "full" test of removeFullLines for row y
RowFull(b, y) == \A x \in 0..(gameGridWidth - 1) : b[y][x] = FixedState

\* the body of "if full" without the loop that clears the top line
ShiftDownKeepsTop(b, y) ==
  [ yy \in 0..(gameGridHeight - 1) |->
      IF yy = 0 THEN b[0]
      ELSE IF yy <= y THEN b[yy - 1]
      ELSE b[yy] ]

\* the body of "if full": rows (0, y] take the row above, row 0 becomes Empty
ShiftDown(b, y) ==
  [ yy \in 0..(gameGridHeight - 1) |->
      IF yy = 0 THEN [ x \in 0..(gameGridWidth - 1) |-> EmptyState ]
      ELSE IF yy <= y THEN b[yy - 1]
      ELSE b[yy] ]

\* the loop of removeFullLines from scan index y on; y advances after a clear too
RECURSIVE RemoveFrom(_, _)
RemoveFrom(b, y) ==
  IF y >= gameGridHeight THEN b
  ELSE IF RowFull(b, y) THEN RemoveFrom(ShiftDown(b, y), y + 1)
  ELSE RemoveFrom(b, y + 1)

\* the loop of removeFullLines with the bound y < gameGridHeight - 1
RECURSIVE RemoveFromButLast(_, _)
RemoveFromButLast(b, y) ==
  IF y >= gameGridHeight - 1 THEN b
  ELSE IF RowFull(b, y) THEN RemoveFromButLast(ShiftDown(b, y), y + 1)
  ELSE RemoveFromButLast(b, y + 1)

\* removeFullLines that never looks at the bottom row
removeFullLinesButLast(b) == RemoveFromButLast(b, 0)

removeFullLines(b) == RemoveFrom(b, 0)

\* newPiece that places the 4x4 box, not the first solid cell, at column 0 / row 0
newPieceAtOrigin(shape, pos) ==
  [ shape |-> shape, state |-> FallingState, pos |-> pos,
    x |-> 0, y |-> 0, oldX |-> 0, oldY |-> 0,
    prevShape |-> shape, prevPos |-> pos ]

\* newPiece with the two random draws as parameters
newPiece(shape, pos) ==
  LET x == - findFirstNonEmptyColumn(ShapeAt(shape, pos))
      y == - getTopOffset(ShapeAt(shape, pos))
  IN  [ shape |-> shape, state |-> FallingState, pos |-> pos,
        x |-> x, y |-> y, oldX |-> x, oldY |-> y,
        prevShape |-> shape, prevPos |-> pos ]

\* moveShape that erases at the current position instead of the previous one
moveShapeErasesNew(g) ==
  LET p == g.piece
      erased == fixPiece(g.board, ShapeAt(p.shape, p.pos), p.x, p.y, EmptyState)
      stamped == fixPiece(erased, ShapeAt(p.shape, p.pos), p.x, p.y, p.state)
  IN  [ board |-> stamped,
        piece |-> [ p EXCEPT !.oldX = p.x, !.oldY = p.y,
                             !.prevShape = p.shape, !.prevPos = p.pos ] ]

\* moveShape that stamps the current footprint without erasing the previous one
moveShapeNoErase(g) ==
  LET p == g.piece
      stamped == fixPiece(g.board, ShapeAt(p.shape, p.pos), p.x, p.y, p.state)
  IN  [ board |-> stamped,
        piece |-> [ p EXCEPT !.oldX = p.x, !.oldY = p.y,
                             !.prevShape = p.shape, !.prevPos = p.pos ] ]

\* moveShape: erase the previous footprint, stamp the current one, save the position
moveShape(g) ==
  LET p == g.piece
      erased == fixPiece(g.board, ShapeAt(p.prevShape, p.prevPos), p.oldX, p.oldY, EmptyState)
      stamped == fixPiece(erased, ShapeAt(p.shape, p.pos), p.x, p.y, p.state)
  IN  [ board |-> stamped,
        piece |-> [ p EXCEPT !.oldX = p.x, !.oldY = p.y,
                             !.prevShape = p.shape, !.prevPos = p.pos ] ]

\* drawBoard: a cell is drawn in the shape colour iff it is not Empty
drawBoard(b) ==
  [ y \in 0..(gameGridHeight - 1) |->
      [ x \in 0..(gameGridWidth - 1) |-> b[y][x] # EmptyState ] ]

\* the part of tick that changes the game: moveShape, then removeFullLines
tick(g) ==
  LET m == moveShape(g)
  IN  [ board |-> removeFullLines(m.board), piece |-> m.piece ]

\* moveLeft that tests the left wall only, not hasCollision
moveLeftWallOnly(g) ==
  LET p == g.piece
      d == findFirstNonEmptyColumn(ShapeAt(p.shape, p.pos))
  IN  IF p.x + d - 1 >= 0
      THEN tick([ g EXCEPT !.piece.x = p.x - 1 ])
      ELSE tick(g)

\* the body of moveLeft between Lock and Unlock
moveLeft(g) ==
  LET p == g.piece
      d == findFirstNonEmptyColumn(ShapeAt(p.shape, p.pos))
  IN  IF p.x + d - 1 >= 0 /\ ~ hasCollision(g.board, p, p.x - 1, p.y, p.pos)
      THEN tick([ g EXCEPT !.piece.x = p.x - 1 ])
      ELSE tick(g)

\* the body of moveRight between Lock and Unlock
moveRight(g) ==
  LET p == g.piece
      width == getShapeDimensions(ShapeAt(p.shape, p.pos))
      x == p.x + findFirstNonEmptyColumn(ShapeAt(p.shape, p.pos))
  IN  IF x + width < gameGridWidth /\ ~ hasCollision(g.board, p, p.x + 1, p.y, p.pos)
      THEN tick([ g EXCEPT !.piece.x = p.x + 1 ])
      ELSE tick(g)

\* moveDown that compares y with 0 instead of -getTopOffset
moveDownCancelsAtZero(g) ==
  LET p == g.piece
  IN  /\ hasCollision(g.board, p, p.x, p.y + 1, p.pos)
      /\ p.y = 0

\* moveDown without the spawn-row test: a blocked piece always locks
moveDownNeverCancels(g) == FALSE

\* the first branch of moveDown: blocked at the spawn row, g.cancel() and return
moveDownCancels(g) ==
  LET p == g.piece
  IN  /\ hasCollision(g.board, p, p.x, p.y + 1, p.pos)
      /\ p.y = - getTopOffset(ShapeAt(p.shape, p.pos))

\* moveDown whose free branch leaves y as it is
moveDownStays(g, shape, pos) ==
  LET p == g.piece
  IN  IF hasCollision(g.board, p, p.x, p.y + 1, p.pos)
      THEN LET fixed == tick([ g EXCEPT !.piece.state = FixedState ])
           IN  tick([ board |-> fixed.board, piece |-> newPiece(shape, pos) ])
      ELSE tick([ g EXCEPT !.piece.state = FallingState ])

\* the body of moveDown when it does not cancel; shape and pos are newPiece's draws
moveDown(g, shape, pos) ==
  LET p == g.piece
  IN  IF hasCollision(g.board, p, p.x, p.y + 1, p.pos)
      THEN LET fixed == tick([ g EXCEPT !.piece.state = FixedState ])
           IN  tick([ board |-> fixed.board, piece |-> newPiece(shape, pos) ])
      ELSE tick([ g EXCEPT !.piece.state = FallingState, !.piece.y = p.y + 1 ])

\* the wall-kick loop of rotate: x moves left while the anchor is on board and it collides
RECURSIVE kick(_, _, _, _)
kick(g, x, y, pos) ==
  IF /\ x + findFirstNonEmptyColumn(ShapeAt(g.piece.shape, pos)) >= 0
     /\ hasCollision(g.board, g.piece, x, y, pos)
  THEN kick(g, x - 1, y, pos)
  ELSE x

\* rotate that commits the kicked position also when it still collides
rotateNoRevert(g) ==
  LET p == g.piece
      startY == p.y + getTopOffset(ShapeAt(p.shape, p.pos))
      startX == p.x + findFirstNonEmptyColumn(ShapeAt(p.shape, p.pos))
      pos == (p.pos + 1) % 4
      x0 == startX - findFirstNonEmptyColumn(ShapeAt(p.shape, pos))
      y0 == startY - getTopOffset(ShapeAt(p.shape, pos))
      x1 == kick(g, x0, y0, pos)
  IN  tick(moveShape([ g EXCEPT !.piece.pos = pos, !.piece.x = x1, !.piece.y = y0 ]))

\* rotate that keeps the origin (x, y) of the 4x4 box instead of the anchor cell
rotateKeepsOrigin(g) ==
  LET p == g.piece
      pos == (p.pos + 1) % 4
      x1 == kick(g, p.x, p.y, pos)
  IN  IF hasCollision(g.board, p, x1, p.y, pos)
      THEN tick([ g EXCEPT !.piece.pos = p.prevPos, !.piece.x = p.oldX, !.piece.y = p.oldY ])
      ELSE tick(moveShape([ g EXCEPT !.piece.pos = pos, !.piece.x = x1, !.piece.y = p.y ]))

\* rotate whose revert restores the rotation index and y but not x
rotateRevertKeepsX(g) ==
  LET p == g.piece
      startY == p.y + getTopOffset(ShapeAt(p.shape, p.pos))
      startX == p.x + findFirstNonEmptyColumn(ShapeAt(p.shape, p.pos))
      pos == (p.pos + 1) % 4
      x0 == startX - findFirstNonEmptyColumn(ShapeAt(p.shape, pos))
      y0 == startY - getTopOffset(ShapeAt(p.shape, pos))
      x1 == kick(g, x0, y0, pos)
  IN  IF hasCollision(g.board, p, x1, y0, pos)
      THEN tick([ g EXCEPT !.piece.pos = p.prevPos, !.piece.x = x1, !.piece.y = p.oldY ])
      ELSE tick(moveShape([ g EXCEPT !.piece.pos = pos, !.piece.x = x1, !.piece.y = y0 ]))

\* the body of rotate between Lock and Unlock
rotate(g) ==
  LET p == g.piece
      startY == p.y + getTopOffset(ShapeAt(p.shape, p.pos))
      startX == p.x + findFirstNonEmptyColumn(ShapeAt(p.shape, p.pos))
      pos == (p.pos + 1) % 4
      x0 == startX - findFirstNonEmptyColumn(ShapeAt(p.shape, pos))
      y0 == startY - getTopOffset(ShapeAt(p.shape, pos))
      x1 == kick(g, x0, y0, pos)
  IN  IF hasCollision(g.board, p, x1, y0, pos)
      THEN tick([ g EXCEPT !.piece.pos = p.prevPos, !.piece.x = p.oldX, !.piece.y = p.oldY ])
      ELSE tick(moveShape([ g EXCEPT !.piece.pos = pos, !.piece.x = x1, !.piece.y = y0 ]))

(***************************************************************************)
(* State.                                                                  *)
(*   board, piece  Game.board and Game.piece                               *)
(*   cancelled     Game.ctx is done (g.cancel() was called)                *)
(*   gameOver      history: the cancel came from moveDown                  *)
(*   run           "constructed" after newGame, "running" once             *)
(*                 runGameLoop has done its first tick, "exited" after     *)
(*                 os.Exit                                                 *)
(*   screen        what drawBoard last put on the screen                   *)
(*   lock          holder of Game.lock ("free", "main" or "keys")          *)
(*   pc, cmd       position and current command of the ticker loop         *)
(*                 ("main") and of the key-handling goroutine ("keys")     *)
(*   last          history: the last command and its outcome               *)
(*   pieces        history: number of pieces created so far                *)
(*   arg           history: the board given to the last removeFullLines    *)
(*                 of the row-clearing specification                       *)
(***************************************************************************)
VARIABLES board, piece, cancelled, gameOver, run, screen, lock, pc, cmd, last, pieces, arg

vars == << board, piece, cancelled, gameOver, run, screen, lock, pc, cmd, last, pieces, arg >>

Threads == { "main", "keys" }

EmptyBoard ==
  [ y \in 0..(gameGridHeight - 1) |-> [ x \in 0..(gameGridWidth - 1) |-> EmptyState ] ]

Game == [ board |-> board, piece |-> piece ]

\* rows that removeFullLines finds full when a commit of g reaches it
FullRows(b) == { y \in 0..(gameGridHeight - 1) : RowFull(b, y) }

\* newGame: zero board, a first piece, nothing cancelled, lock free
Init ==
  /\ board = EmptyBoard
  /\ \E shape \in 0..(RandShapeBound - 1), pos \in 0..(RandPosBound - 1) :
        piece = newPiece(shape, pos)
  /\ cancelled = FALSE
  /\ gameOver = FALSE
  /\ run = "constructed"
  /\ screen = drawBoard(EmptyBoard)
  /\ lock = "free"
  /\ pc = [ t \in Threads |-> "idle" ]
  /\ cmd = [ t \in Threads |-> "none" ]
  /\ last = [ op |-> "newGame", res |-> "none", n |-> 0 ]
  /\ pieces = 1
  /\ arg = EmptyBoard

\* runGameLoop's first g.tick(), before any goroutine is started
StartLoop ==
  /\ run = "constructed"
  /\ LET g == tick(Game)
     IN  /\ board' = g.board
         /\ piece' = g.piece
         /\ screen' = drawBoard(g.board)
  /\ run' = "running"
  /\ last' = [ op |-> "start", res |-> "none", n |-> 0 ]
  /\ UNCHANGED << cancelled, gameOver, lock, pc, cmd, pieces, arg >>

\* the piece of g cannot move down one row and is below its spawn row: moveDown locks it
moveDownLocks(g) ==
  /\ hasCollision(g.board, g.piece, g.piece.x, g.piece.y + 1, g.piece.pos)
  /\ ~ moveDownCancels(g)

\* the body of command c between Lock and the last drawBoard: its effect on board,
\* piece, cancelled, gameOver and pieces (shape and pos are the draws of newPiece)
Apply(c, shape, pos) ==
  IF c = "moveDown" /\ moveDownCancels(Game)
  THEN /\ cancelled' = TRUE
       /\ gameOver' = TRUE
       /\ UNCHANGED << board, piece, pieces >>
  ELSE /\ LET g == CASE c = "moveLeft" -> moveLeft(Game)
                     [] c = "moveRight" -> moveRight(Game)
                     [] c = "moveDown" -> moveDown(Game, shape, pos)
                     [] c = "rotate" -> rotate(Game)
          IN  /\ board' = g.board
              /\ piece' = g.piece
       /\ pieces' = IF c = "moveDown" /\ moveDownLocks(Game) THEN pieces + 1 ELSE pieces
       /\ UNCHANGED << cancelled, gameOver >>

\* the draws (shape, pos) of rand.Intn that command c makes: newPiece is called,
\* and draws, only when moveDown locks the piece
Draws(c) ==
  IF c = "moveDown" /\ moveDownLocks(Game)
  THEN (0..(RandShapeBound - 1)) \X (0..(RandPosBound - 1))
  ELSE { << 0, 0 >> }

\* history of command c: its outcome, and the number of rows its lock cleared or
\* the number of columns its rotation was kicked to the left
Outcome(c) ==
  [ op |-> c,
    res |-> IF c = "moveDown" /\ moveDownCancels(Game) THEN "gameover"
            ELSE IF c = "moveDown" /\ moveDownLocks(Game) THEN "locked"
            ELSE IF piece'.x = piece.x /\ piece'.y = piece.y /\ piece'.pos = piece.pos
                 THEN "noop" ELSE "done",
    n |-> IF c = "moveDown" /\ moveDownLocks(Game)
          THEN Cardinality(FullRows(moveShape([ Game EXCEPT !.piece.state = FixedState ]).board))
          ELSE IF c = "rotate" /\ piece'.pos # piece.pos
          THEN (piece.x + findFirstNonEmptyColumn(ShapeAt(piece.shape, piece.pos)))
               - (piece'.x + findFirstNonEmptyColumn(ShapeAt(piece'.shape, piece'.pos)))
          ELSE 0 ]

Commands == { "moveLeft", "moveRight", "moveDown", "rotate" }

(***************************************************************************)
(* The engine, one command at a time: each action is a whole command from  *)
(* Lock to Unlock (mutate, commit, draw), issued by the ticker or by a key.*)
(***************************************************************************)
Command(c) ==
  /\ run = "running"
  /\ (c = "moveDown" /\ moveDownLocks(Game)) => pieces < MaxPieces
  /\ \E d \in Draws(c) : Apply(c, d[1], d[2])
  /\ last' = Outcome(c)
  /\ screen' = IF c = "moveDown" /\ moveDownCancels(Game) THEN screen ELSE drawBoard(board')
  /\ UNCHANGED << run, lock, pc, cmd, arg >>

MoveLeft == Command("moveLeft")
MoveRight == Command("moveRight")
MoveDown == Command("moveDown")
Rotate == Command("rotate")

\* the ctx.Done() case of the main loop's select: os.Exit(0)
Exit ==
  /\ run = "running"
  /\ cancelled
  /\ run' = "exited"
  /\ last' = [ op |-> "exit", res |-> "none", n |-> 0 ]
  /\ UNCHANGED << board, piece, cancelled, gameOver, screen, lock, pc, cmd, pieces, arg >>

Next ==
  \/ StartLoop
  \/ MoveLeft
  \/ MoveRight
  \/ MoveDown
  \/ Rotate
  \/ Exit

Spec == Init /\ [][Next]_vars


(***************************************************************************)
(* The goroutines of runGameLoop.  "main" is the for/select loop of        *)
(* runGameLoop (ticker and ctx.Done), "keys" the goroutine that receives   *)
(* the events and calls handleKey.  A command is four steps: Lock, the     *)
(* body up to removeFullLines of its last tick, drawBoard, Unlock.         *)
(*   pc[t]: "idle"   between commands                                      *)
(*          "lock"   in g.lock.Lock()                                      *)
(*          "body"   holds the lock, has not run the body yet              *)
(*          "draw"   has committed, about to drawBoard                     *)
(*          "unlock" about to run the deferred g.lock.Unlock()             *)
(***************************************************************************)

\* case <-ticker.C of the main loop: g.moveDown()
TickFires ==
  /\ run = "running"
  /\ pc["main"] = "idle"
  /\ pieces < ConcPieces
  /\ pc' = [ pc EXCEPT !["main"] = "lock" ]
  /\ cmd' = [ cmd EXCEPT !["main"] = "moveDown" ]
  /\ UNCHANGED << board, piece, cancelled, gameOver, run, screen, lock, last, pieces, arg >>

\* handleKey with KeyLeft, KeyRight, KeyDown or KeyUp: the command is called
KeyEvent ==
  /\ run = "running"
  /\ pc["keys"] = "idle"
  /\ \E c \in Commands :
        /\ c = "moveDown" => pieces < ConcPieces
        /\ cmd' = [ cmd EXCEPT !["keys"] = c ]
  /\ pc' = [ pc EXCEPT !["keys"] = "lock" ]
  /\ UNCHANGED << board, piece, cancelled, gameOver, run, screen, lock, last, pieces, arg >>

\* handleKey with KeyEsc, KeyCtrlC or the rune q: g.cancel()
KeyQuit ==
  /\ run = "running"
  /\ pc["keys"] = "idle"
  /\ cancelled' = TRUE
  /\ UNCHANGED << board, piece, gameOver, run, screen, lock, pc, cmd, last, pieces, arg >>

\* the signal goroutine: SIGINT or SIGTERM received, g.cancel()
Signal ==
  /\ run = "running"
  /\ cancelled' = TRUE
  /\ UNCHANGED << board, piece, gameOver, run, screen, lock, pc, cmd, last, pieces, arg >>

\* g.lock.Lock() that returns although the lock is held
AcquireHeld(t) ==
  /\ run = "running"
  /\ pc[t] = "lock"
  /\ lock' = t
  /\ pc' = [ pc EXCEPT ![t] = "body" ]
  /\ UNCHANGED << board, piece, cancelled, gameOver, run, screen, cmd, last, pieces, arg >>

\* g.lock.Lock() returns
Acquire(t) ==
  /\ run = "running"
  /\ pc[t] = "lock"
  /\ lock = "free"
  /\ lock' = t
  /\ pc' = [ pc EXCEPT ![t] = "body" ]
  /\ UNCHANGED << board, piece, cancelled, gameOver, run, screen, cmd, last, pieces, arg >>

\* the body of the command with an Unlock that is not deferred: the branch of
\* moveDown that cancels returns with the lock held
BodyReturnsLocked(t) ==
  /\ run = "running"
  /\ pc[t] = "body"
  /\ \E d \in Draws(cmd[t]) : Apply(cmd[t], d[1], d[2])
  /\ pc' = [ pc EXCEPT ![t] = IF cmd[t] = "moveDown" /\ moveDownCancels(Game)
                              THEN "idle" ELSE "draw" ]
  /\ UNCHANGED << run, screen, lock, cmd, last, arg >>

\* the body of the command; the branch of moveDown that cancels returns at once
Body(t) ==
  /\ run = "running"
  /\ pc[t] = "body"
  /\ \E d \in Draws(cmd[t]) : Apply(cmd[t], d[1], d[2])
  /\ pc' = [ pc EXCEPT ![t] = IF cmd[t] = "moveDown" /\ moveDownCancels(Game)
                              THEN "unlock" ELSE "draw" ]
  /\ UNCHANGED << run, screen, lock, cmd, last, arg >>

\* drawBoard of the command's last tick
Draw(t) ==
  /\ run = "running"
  /\ pc[t] = "draw"
  /\ screen' = drawBoard(board)
  /\ pc' = [ pc EXCEPT ![t] = "unlock" ]
  /\ UNCHANGED << board, piece, cancelled, gameOver, run, lock, cmd, last, pieces, arg >>

\* the deferred g.lock.Unlock(); the command returns
Release(t) ==
  /\ run = "running"
  /\ pc[t] = "unlock"
  /\ lock' = "free"
  /\ pc' = [ pc EXCEPT ![t] = "idle" ]
  /\ cmd' = [ cmd EXCEPT ![t] = "none" ]
  /\ UNCHANGED << board, piece, cancelled, gameOver, run, screen, last, pieces, arg >>

\* case <-g.ctx.Done() of the main loop: os.Exit(0) ends every goroutine
MainExit ==
  /\ run = "running"
  /\ pc["main"] = "idle"
  /\ cancelled
  /\ run' = "exited"
  /\ UNCHANGED << board, piece, cancelled, gameOver, screen, lock, pc, cmd, last, pieces, arg >>

\* goroutine t is between Lock and Unlock
InSection(t) == pc[t] \in { "body", "draw", "unlock" }

AcquireAny == \E t \in Threads : Acquire(t)
BodyAny == \E t \in Threads : Body(t)
DrawAny == \E t \in Threads : Draw(t)
ReleaseAny == \E t \in Threads : Release(t)

NextConc ==
  \/ StartLoop
  \/ TickFires
  \/ KeyEvent
  \/ KeyQuit
  \/ Signal
  \/ AcquireAny
  \/ BodyAny
  \/ DrawAny
  \/ ReleaseAny
  \/ MainExit

SpecConc == Init /\ [][NextConc]_vars

\* the goroutine between Lock and Unlock makes its next step (Body, Draw or
\* Release), told by its pc alone: in SpecConc these are the steps that move the
\* pc of a goroutine that is in the section, and one is possible whenever a
\* goroutine is in the section
SectionStep ==
  /\ run = "running"
  /\ \E t \in Threads :
        /\ InSection(t)
        /\ \E q \in { "idle", "draw", "unlock" } \ { pc[t] } : pc' = [ pc EXCEPT ![t] = q ]

\* Scheduling: the goroutine that holds the lock keeps running (weak fairness of
\* its steps), sync.Mutex hands the lock to the main loop if it keeps waiting for
\* it, and the select of the main loop, which picks at random among its ready
\* cases, does not pass over a ready ctx.Done() forever (strong fairness).
FairSpecConc ==
  /\ SpecConc
  /\ WF_pc(SectionStep)
  /\ SF_vars(Acquire("main"))
  /\ SF_vars(MainExit)

\* FairSpecConc with a ticker that keeps firing: whenever the main loop stays in
\* its select, the case <-ticker.C is taken
FairTickSpec ==
  /\ FairSpecConc
  /\ WF_vars(TickFires)



(***************************************************************************)
(* removeFullLines on its own: the board is drawn from the boards whose    *)
(* rows are one of five patterns (empty, full, full but for column 0,      *)
(* only the last column Fixed, full but for a Falling cell in column 0),   *)
(* and the one action calls removeFullLines on the current board.          *)
(***************************************************************************)
RowPatterns ==
  { [ x \in 0..(gameGridWidth - 1) |-> EmptyState ],
    [ x \in 0..(gameGridWidth - 1) |-> FixedState ],
    [ x \in 0..(gameGridWidth - 1) |-> IF x = 0 THEN EmptyState ELSE FixedState ],
    [ x \in 0..(gameGridWidth - 1) |-> IF x = gameGridWidth - 1 THEN FixedState ELSE EmptyState ],
    [ x \in 0..(gameGridWidth - 1) |-> IF x = 0 THEN FallingState ELSE FixedState ] }

InitLines ==
  /\ board \in [ 0..(gameGridHeight - 1) -> RowPatterns ]
  /\ piece = newPiece(0, 0)
  /\ cancelled = FALSE
  /\ gameOver = FALSE
  /\ run = "constructed"
  /\ screen = drawBoard(EmptyBoard)
  /\ lock = "free"
  /\ pc = [ t \in Threads |-> "idle" ]
  /\ cmd = [ t \in Threads |-> "none" ]
  /\ last = [ op |-> "newGame", res |-> "none", n |-> 0 ]
  /\ pieces = 1
  /\ arg = EmptyBoard

ClearLines ==
  /\ arg' = board
  /\ board' = removeFullLines(board)
  /\ last' = [ op |-> "removeFullLines", res |-> "none", n |-> Cardinality(FullRows(board)) ]
  /\ UNCHANGED << piece, cancelled, gameOver, run, screen, lock, pc, cmd, pieces >>

NextLines == ClearLines

SpecLines == InitLines /\ [][NextLines]_vars

EmptyRow == [ x \in 0..(gameGridWidth - 1) |-> EmptyState ]
IsFullRow(b, y) == \A x \in 0..(gameGridWidth - 1) : b[y][x] = FixedState
FullOf(b) == { y \in 0..(gameGridHeight - 1) : IsFullRow(b, y) }
KeptOf(b) == (0..(gameGridHeight - 1)) \ FullOf(b)
OccupiedRows(b) == { y \in 0..(gameGridHeight - 1) : b[y] # EmptyRow }

\* the rows of b that are not full, in their order, under as many Empty rows as b has full rows
Packed(b) ==
  LET k == Cardinality(FullOf(b))
  IN  [ y \in 0..(gameGridHeight - 1) |->
          IF y < k THEN EmptyRow
          ELSE b[CHOOSE j \in KeptOf(b) : Cardinality({ z \in KeptOf(b) : z < j }) = y - k] ]

\* C4: one removeFullLines yields the rows that were not full, in order, packed at
\* the bottom under one Empty row per full row; so a board without a full row is
\* unchanged, a single full row r moves rows [0,r) down by one, empties row 0 and
\* keeps the rows below r, and two adjacent full rows r, r+1 move the rows above
\* them down by two and leave two occupied rows fewer
C4_RemoveFullLinesPacks ==
  [][ last'.op = "removeFullLines" =>
        /\ board' = Packed(board)
        /\ FullOf(board) = {} => board' = board
        /\ \A r \in 0..(gameGridHeight - 1) :
              /\ FullOf(board) = {r} =>
                    /\ board'[0] = EmptyRow
                    /\ \A y \in 0..(gameGridHeight - 1) :
                          /\ (0 < y /\ y <= r) => board'[y] = board[y - 1]
                          /\ y > r => board'[y] = board[y]
              /\ FullOf(board) = {r, r + 1} =>
                    /\ board'[0] = EmptyRow
                    /\ board'[1] = EmptyRow
                    /\ \A y \in 0..(gameGridHeight - 1) :
                          /\ (1 < y /\ y <= r + 1) => board'[y] = board[y - 2]
                          /\ y > r + 1 => board'[y] = board[y]
                    /\ Cardinality(OccupiedRows(board')) = Cardinality(OccupiedRows(board)) - 2
    ]_vars

\* removeFullLines has just removed two adjacent full rows from under occupied rows
C4_Witness ==
  /\ last.op = "removeFullLines"
  /\ \E r \in 1..(gameGridHeight - 2) :
        /\ FullOf(arg) = {r, r + 1}
        /\ arg[r - 1] # EmptyRow
        /\ board[r + 1] = arg[r - 1]
  /\ board # arg


(***************************************************************************)
(* The three mask helpers applied to every entry of the shapes table.      *)
(***************************************************************************)
InitShapes ==
  /\ board = EmptyBoard
  /\ \E shape \in 0..(Len(shapes) - 1), pos \in 0..(Len(shapes[1]) - 1) :
        piece = newPiece(shape, pos)
  /\ cancelled = FALSE
  /\ gameOver = FALSE
  /\ run = "constructed"
  /\ screen = drawBoard(EmptyBoard)
  /\ lock = "free"
  /\ pc = [ t \in Threads |-> "idle" ]
  /\ cmd = [ t \in Threads |-> "none" ]
  /\ last = [ op |-> "newGame", res |-> "none", n |-> 0 ]
  /\ pieces = 1
  /\ arg = EmptyBoard

\* a call of helper op on the mask of the piece, its return value recorded in last.n
Returned(op, value) ==
  /\ last' = [ op |-> op, res |-> "returned", n |-> value ]
  /\ UNCHANGED << board, piece, cancelled, gameOver, run, screen, lock, pc, cmd, pieces, arg >>

GetTopOffset ==
  Returned("getTopOffset", getTopOffset(ShapeAt(piece.shape, piece.pos)))

GetShapeDimensions ==
  Returned("getShapeDimensions", getShapeDimensions(ShapeAt(piece.shape, piece.pos)))

FindFirstNonEmptyColumn ==
  Returned("findFirstNonEmptyColumn", findFirstNonEmptyColumn(ShapeAt(piece.shape, piece.pos)))

NextShapes == GetTopOffset \/ GetShapeDimensions \/ FindFirstNonEmptyColumn

SpecShapes == InitShapes /\ [][NextShapes]_vars

(***************************************************************************)
(* Vocabulary of the properties, read off the mask cell by cell.           *)
(***************************************************************************)
SolidCols(mask) == { i % 4 : i \in SolidIndices[mask] }
SolidRows(mask) == { i \div 4 : i \in SolidIndices[mask] }
leftColumn(mask) == SetMin(SolidCols(mask))
width(mask) == SetMax(SolidCols(mask)) - SetMin(SolidCols(mask)) + 1
topOffset(mask) == SetMin(SolidRows(mask))

CurMask == ShapeAt(piece.shape, piece.pos)
Footprint == MaskCells(CurMask, piece.x, piece.y)
OnBoard(c) == c[1] \in 0..(gameGridWidth - 1) /\ c[2] \in 0..(gameGridHeight - 1)

\* some cell of the current footprint moved by (dx, dy) is on the board and Fixed
HitsFixed(dx, dy) ==
  \E c \in MaskCells(CurMask, piece.x + dx, piece.y + dy) :
     OnBoard(c) /\ board[c[2]][c[1]] = FixedState

\* some cell of the current footprint moved by (dx, dy) is off the board
LeavesBoard(dx, dy) ==
  \E c \in MaskCells(CurMask, piece.x + dx, piece.y + dy) : ~ OnBoard(c)

SamePlace == piece'.x = piece.x /\ piece'.y = piece.y /\ piece'.pos = piece.pos

\* C1: in every state the solid columns of the active piece lie on the board:
\* x + leftColumn(mask) >= 0 and x + leftColumn(mask) + width(mask) <= boardWidth
C1_PieceInsideWalls ==
  /\ piece.x + leftColumn(CurMask) >= 0
  /\ piece.x + leftColumn(CurMask) + width(CurMask) <= gameGridWidth

\* a moveRight refused with the piece against the right wall, below the spawn row
C1_Witness ==
  /\ last.op = "moveRight" /\ last.res = "noop"
  /\ piece.x + leftColumn(CurMask) + width(CurMask) = gameGridWidth
  /\ piece.y + topOffset(CurMask) > 0

\* the next variant collides at every position of the leftward wall-kick search
RotateBlocked ==
  LET pos == (piece.pos + 1) % 4
      m == ShapeAt(piece.shape, pos)
      col == piece.x + leftColumn(CurMask)
      row == piece.y + topOffset(CurMask)
  IN  \A k \in 0..col :
         \E c \in MaskCells(m, k - leftColumn(m), row - topOffset(m)) :
            ~ OnBoard(c) \/ board[c[2]][c[1]] = FixedState

\* C2: a rotate whose variant collides at every wall-kick position leaves the
\* rotation index, x, y and the board as they were
C2_FailedRotateKeepsAll ==
  [][ (last'.op = "rotate" /\ RotateBlocked) => (SamePlace /\ board' = board) ]_vars

\* a rotate was refused away from the left wall, and the rotation is still blocked
C2_Witness ==
  /\ last.op = "rotate" /\ last.res = "noop"
  /\ RotateBlocked
  /\ piece.x + leftColumn(CurMask) > 0

LeftIllegal == piece.x + leftColumn(CurMask) - 1 < 0 \/ HitsFixed(-1, 0)
RightIllegal ==
  piece.x + leftColumn(CurMask) + width(CurMask) + 1 > gameGridWidth \/ HitsFixed(1, 0)

\* C3: an illegal moveLeft / moveRight changes neither x, y, the rotation index nor
\* any board cell; a legal one changes x by exactly 1 and keeps y and the rotation
C3_HorizontalMove ==
  [][ /\ last'.op = "moveLeft" =>
           IF LeftIllegal THEN SamePlace /\ board' = board
           ELSE piece'.x = piece.x - 1 /\ piece'.y = piece.y /\ piece'.pos = piece.pos
      /\ last'.op = "moveRight" =>
           IF RightIllegal THEN SamePlace /\ board' = board
           ELSE piece'.x = piece.x + 1 /\ piece'.y = piece.y /\ piece'.pos = piece.pos
    ]_vars

\* a moveLeft was refused because of a Fixed cell, not because of the wall
C3_Witness ==
  /\ last.op = "moveLeft" /\ last.res = "noop"
  /\ piece.x + leftColumn(CurMask) > 0
  /\ HitsFixed(-1, 0)

\* C5: after every command no board row consists of Fixed cells only
C5_NoFullRowLeft ==
  \A y \in 0..(gameGridHeight - 1) : \E x \in 0..(gameGridWidth - 1) : board[y][x] # FixedState

\* a lock has just filled two rows or more at once, and some Fixed cell is left
C5_Witness ==
  /\ last.op = "moveDown" /\ last.res = "locked" /\ last.n >= 2
  /\ \E y \in 0..(gameGridHeight - 1), x \in 0..(gameGridWidth - 1) : board[y][x] = FixedState

\* the piece cannot move down one row and stands where it was spawned
BlockedAtSpawn ==
  /\ HitsFixed(0, 1) \/ LeavesBoard(0, 1)
  /\ piece.y = - topOffset(CurMask)

\* C6: a moveDown of a piece that is blocked at y = -topOffset(mask) cancels the
\* context and changes neither the board nor the piece; no other moveDown cancels
C6_GameOverOnlyAtSpawn ==
  [][ last'.op = "moveDown" =>
        IF BlockedAtSpawn
        THEN cancelled' /\ board' = board /\ piece' = piece
        ELSE cancelled' = cancelled /\ gameOver' = gameOver ]_vars

\* moveDown has just signalled game over
C6_Witness ==
  /\ last.op = "moveDown" /\ last.res = "gameover"
  /\ cancelled /\ gameOver /\ BlockedAtSpawn

\* C10: after every completed command the rotation index is in 0..3 and every
\* cell of the footprint at (x, y) is on the board and not Fixed
C10_CommittedPieceFits ==
  run # "constructed" =>
    /\ piece.pos \in 0..3
    /\ \A c \in Footprint : OnBoard(c) /\ board[c[2]][c[1]] # FixedState

\* a rotation has just been committed after a wall-kick put the piece at the right wall
C10_Witness ==
  /\ last.op = "rotate" /\ last.res = "done"
  /\ width(CurMask) > 1
  /\ piece.x + leftColumn(CurMask) + width(CurMask) = gameGridWidth
  /\ \A c \in Footprint : OnBoard(c)



\* C7: once moveDown has signalled game over, no step of the ticker loop or of the
\* key-handling goroutine changes the board or the active piece
C7_FrozenAfterGameOver ==
  [][ gameOver => (board' = board /\ piece' = piece) ]_vars

\* C8: at most one goroutine is between Lock and Unlock, it holds the lock, nothing
\* changes the board or the piece between a command's commit and its Unlock, and
\* the frame on the screen when the command unlocks is the board it produced
C8_CommandsSerialized ==
  /\ [] ( /\ ~ (InSection("main") /\ InSection("keys"))
          /\ \A t \in Threads : InSection(t) => lock = t
          /\ \A t \in Threads : pc[t] = "unlock" => screen = drawBoard(board) )
  /\ [][ \A t \in Threads :
            pc[t] \in { "draw", "unlock" } => (board' = board /\ piece' = piece) ]_vars

\* the ticker's moveDown has committed and not yet drawn while a key command waits
\* for the lock
C8_Witness ==
  /\ pc["main"] = "draw" /\ lock = "main"
  /\ pc["keys"] = "lock" /\ cmd["keys"] = "rotate"
  /\ screen # drawBoard(board)

\* C9: after the context is cancelled (quit key, signal or game over) the process
\* eventually exits, under the scheduling of FairSpecConc
C9_ShutdownExits == cancelled ~> (run = "exited")

\* the process has exited after a game over while a key command was waiting for the lock
C9_Witness ==
  /\ run = "exited" /\ cancelled /\ gameOver
  /\ pc["keys"] = "lock"


(***************************************************************************)
(* Locking, falling, rotating and spawning.                                *)
(***************************************************************************)
IsFixed(b, x, y) == b[y][x] = FixedState
AllCells == (0..(gameGridWidth - 1)) \X (0..(gameGridHeight - 1))

\* the Fixed cells are the same before and after the step
FixedKept == \A c \in AllCells : IsFixed(board', c[1], c[2]) <=> IsFixed(board, c[1], c[2])

\* the board with the cells of the current footprint made Fixed
StampedFixed ==
  [ y \in 0..(gameGridHeight - 1) |->
      [ x \in 0..(gameGridWidth - 1) |->
          IF << x, y >> \in Footprint THEN FixedState ELSE board[y][x] ] ]

\* the piece cannot move down one row and is not where it was spawned
BlockedBelowSpawn ==
  /\ HitsFixed(0, 1) \/ LeavesBoard(0, 1)
  /\ piece.y # - topOffset(CurMask)

\* the piece of the next state is a fresh one: Falling, at the spawn position
SpawnedNext ==
  LET m == ShapeAt(piece'.shape, piece'.pos)
  IN  /\ piece'.state = FallingState
      /\ piece'.x = - leftColumn(m)
      /\ piece'.y = - topOffset(m)

\* C11: a moveDown of a piece that is blocked below its spawn row locks it: the
\* Fixed cells afterwards are those of the board with the footprint made Fixed and
\* the full rows removed, the new piece is Falling at the spawn position, and no
\* later moveLeft, moveRight or rotate changes a Fixed cell
C11_LockFixesFootprint ==
  [][ /\ (last'.op = "moveDown" /\ BlockedBelowSpawn) =>
           /\ \A c \in AllCells :
                 IsFixed(board', c[1], c[2]) <=> IsFixed(Packed(StampedFixed), c[1], c[2])
           /\ SpawnedNext
      /\ last'.op \in { "moveLeft", "moveRight", "rotate" } => FixedKept
    ]_vars

\* C12: a moveDown whose footprint does not collide one row lower increases y by
\* exactly 1, keeps x, the rotation index and the kind, leaves the piece Falling,
\* empties the cells of the old footprint that are not in the new one, and changes
\* no Fixed cell
C12_FallOneRow ==
  [][ (last'.op = "moveDown" /\ ~ (HitsFixed(0, 1) \/ LeavesBoard(0, 1))) =>
        /\ piece'.y = piece.y + 1
        /\ piece'.x = piece.x /\ piece'.pos = piece.pos /\ piece'.shape = piece.shape
        /\ piece'.state = FallingState
        /\ \A c \in Footprint \ MaskCells(CurMask, piece.x, piece.y + 1) :
              OnBoard(c) => board'[c[2]][c[1]] = EmptyState
        /\ \A c \in MaskCells(CurMask, piece.x, piece.y + 1) : board'[c[2]][c[1]] = FallingState
        /\ FixedKept
    ]_vars

\* a piece has just fallen one row, next to Fixed cells of an earlier piece
C12_Witness ==
  /\ last.op = "moveDown" /\ last.res = "done"
  /\ piece.y + topOffset(CurMask) >= 2
  /\ \E c \in AllCells : IsFixed(board, c[1], c[2])

\* C13: a rotate that succeeds advances the rotation index by one modulo 4, keeps
\* the board row of the topmost solid cell, and leaves the board column of the
\* leftmost solid cell at most where it was and at least 0
C13_RotateKeepsAnchor ==
  [][ (last'.op = "rotate" /\ ~ RotateBlocked) =>
        LET m == ShapeAt(piece'.shape, piece'.pos)
        IN  /\ piece'.pos = (piece.pos + 1) % 4
            /\ piece'.y + topOffset(m) = piece.y + topOffset(CurMask)
            /\ piece'.x + leftColumn(m) <= piece.x + leftColumn(CurMask)
            /\ piece'.x + leftColumn(m) >= 0
    ]_vars

\* a rotation has just been committed after a wall-kick of one column or more
C13_Witness ==
  /\ last.op = "rotate" /\ last.res = "done" /\ last.n >= 1
  /\ piece.x + leftColumn(CurMask) >= 0

\* the piece of the current state was made by newPiece and has not been moved since
JustSpawned == run = "constructed" \/ last.res = "locked"

\* C14: every newly spawned piece, at game start and after every lock, is Falling
\* at x = -leftColumn and y = -topOffset, so that its leftmost solid column is
\* board column 0 and its topmost solid row is board row 0, and its saved previous
\* position and rotation equal the current ones
C14_SpawnAtOrigin ==
  JustSpawned =>
    /\ piece.state = FallingState
    /\ piece.x = - leftColumn(CurMask)
    /\ piece.y = - topOffset(CurMask)
    /\ SetMin({ c[1] : c \in Footprint }) = 0
    /\ SetMin({ c[2] : c \in Footprint }) = 0
    /\ piece.oldX = piece.x /\ piece.oldY = piece.y
    /\ piece.prevShape = piece.shape /\ piece.prevPos = piece.pos

\* a vertical piece has been spawned by a lock, its 4x4 box two columns off the board
C14_Witness ==
  /\ last.res = "locked"
  /\ piece.x = -2 /\ piece.y = 0

\* the board with the old footprint erased and the new one stamped Falling, every
\* other cell where it was: the result of a commit that removes and shifts no row
Restamped ==
  LET old == Footprint
      new == Footprint'
      rows == { c[2] : c \in old \cup new }
  IN  [ y \in 0..(gameGridHeight - 1) |->
          IF y \in rows
          THEN [ x \in 0..(gameGridWidth - 1) |->
                   IF << x, y >> \in new THEN FallingState
                   ELSE IF << x, y >> \in old THEN EmptyState
                   ELSE board[y][x] ]
          ELSE board[y] ]

\* C15: rows are removed only in the commit that follows a lock: moveLeft,
\* moveRight, rotate and a moveDown that does not lock remove and shift no row, and
\* no commit clears a row that holds a Falling cell of the active piece
C15_ClearOnlyAfterLock ==
  [][ /\ (last'.op \in Commands /\ last'.res \in { "done", "noop" }) => board' = Restamped
      /\ last'.op \in Commands =>
           \A c \in Footprint' : OnBoard(c) /\ board'[c[2]][c[1]] = FallingState
    ]_vars

\* a move has been committed that left a row without an Empty cell, the active
\* piece lying in it next to Fixed cells
C15_Witness ==
  /\ last.op \in { "moveLeft", "moveRight", "moveDown", "rotate" } /\ last.res = "done"
  /\ \E y \in 0..(gameGridHeight - 1) :
        /\ \A x \in 0..(gameGridWidth - 1) : board[y][x] # EmptyState
        /\ \E x \in 0..(gameGridWidth - 1) : board[y][x] = FallingState

\* C16: for every rotation variant of every shape of the table, getTopOffset
\* returns the first non-empty row of the mask, findFirstNonEmptyColumn the
\* leftmost occupied column and getShapeDimensions rightmost - leftmost + 1, rows
\* and columns being those of the cells (i mod 4, i div 4) of the bits 15-i
C16_HelpersMatchMask ==
  /\ last.op = "getTopOffset" => last.n = topOffset(CurMask)
  /\ last.op = "findFirstNonEmptyColumn" => last.n = leftColumn(CurMask)
  /\ last.op = "getShapeDimensions" => last.n = width(CurMask)

\* the width of a mask whose occupied columns are not symmetric in the 4x4 box
\* (J, third variant, 0xE880: columns 0..2) has been computed
C16_Witness ==
  /\ last.op = "getShapeDimensions" /\ last.res = "returned"
  /\ piece.shape = 5 /\ piece.pos = 2
  /\ SolidCols(CurMask) = { 0, 1, 2 }

\* C17: a Fixed cell stops being Fixed at its place only through a row clear: a
\* commit that does not lock keeps every Fixed cell, and the commit of a lock,
\* spawn included, keeps every Fixed cell of the terrain that the row clears leave
C17_FixedOnlyCleared ==
  [][ /\ last'.res # "locked" =>
           \A c \in AllCells : IsFixed(board, c[1], c[2]) => IsFixed(board', c[1], c[2])
      /\ last'.res = "locked" =>
           \A c \in AllCells :
              IsFixed(Packed(StampedFixed), c[1], c[2]) => IsFixed(board', c[1], c[2])
    ]_vars

FallingCells == { c \in AllCells : board[c[2]][c[1]] = FallingState }

\* C18: after every completed command the board cells in the Falling state are
\* exactly the four cells of the active piece's footprint at its committed
\* position and rotation; no stale Falling cell is left behind
C18_FallingIsFootprint ==
  run # "constructed" =>
    /\ FallingCells = Footprint
    /\ Cardinality(FallingCells) = 4

\* a lock has just cleared a row and spawned the next piece above Fixed terrain
C18_Witness ==
  /\ last.res = "locked" /\ last.n >= 1
  /\ FallingCells # {}
  /\ \E c \in AllCells : IsFixed(board, c[1], c[2])

\* C19: board row 0 never holds a Fixed cell
C19_TopRowNeverFixed ==
  \A x \in 0..(gameGridWidth - 1) : ~ IsFixed(board, x, 0)

\* a piece has locked with its topmost solid cell on row 1, right below the top row
C19_Witness ==
  /\ last.res = "locked"
  /\ \E x \in 0..(gameGridWidth - 1) : IsFixed(board, x, 1)

(***************************************************************************)
(* Gravity.                                                                *)
(***************************************************************************)
\* board row of the topmost solid cell of the active piece
TopRow == piece.y + topOffset(CurMask)

\* goroutine t completes the body of a moveDown in this step
MoveDownBody(t) == pc[t] = "body" /\ cmd[t] = "moveDown" /\ pc'[t] # "body"

\* C20: while ticks keep occurring and the game is not shut down, every active
\* piece eventually locks or ends the game, whatever moveLeft, moveRight and
\* rotate commands are interleaved: the top row of the piece never decreases
\* during its life, every moveDown raises it by 1 or locks or signals game over,
\* and it stays below the board height.  pieces numbers the active piece and
\* grows by one at each lock, so "every piece locks or the game ends" reads: the
\* number reaches the bound on pieces, or the context is cancelled
C20_PieceLocksOrGameOver ==
  /\ (run = "running") ~> (pieces >= ConcPieces \/ cancelled)
  /\ [][ /\ pieces' = pieces => TopRow' >= TopRow
         /\ \A t \in Threads :
               MoveDownBody(t) =>
                  \/ TopRow' = TopRow + 1 /\ pieces' = pieces /\ cancelled' = cancelled
                  \/ pieces' = pieces + 1
                  \/ cancelled'
     ]_vars
  /\ [](TopRow \in 0..(gameGridHeight - 1))

\* a gravity tick of the main loop has just locked a piece that key commands had
\* moved off its spawn column, and spawned the next one
C20_Witness ==
  /\ pc["main"] = "draw" /\ cmd["main"] = "moveDown"
  /\ pieces >= 2 /\ ~ cancelled
  /\ TopRow = 0
  /\ \E c \in AllCells : c[1] >= 1 /\ IsFixed(board, c[1], c[2])

====
